---- MODULE Spec2Model ----
(***************************************************************************)
(* State-machine model of the or_rviz marker adapters:                     *)
(*   JointMarker  (markers/JointMarker.cpp, kept as src/unnamed/part_000)  *)
(*   LinkMarker   (src/src/LinkMarker.cpp)                                 *)
(* The OpenRAVE kinematic model (joint, link, geometries) and the          *)
(* interactive-marker server are the environment of the two classes: the   *)
(* model keeps the part of their state the classes read or write.          *)
(***************************************************************************)
EXTENDS Integers, Sequences, FiniteSets, TLC

(***************************************************************************)
(* Bounds of the model.                                                    *)
(***************************************************************************)
\* joint values range over 0..MaxAngle
MaxAngle == 1
\* handle poses (axis/anchor derived, or pushed by set_pose/feedback) range over 0..MaxPose
MaxPose == 1
\* geometry objects a link may hold are 1..MaxGeoms
MaxGeoms == 2
\* the world SuperViewer draws: bodies, links of a body, geometries of a link
MaxBodies == 2
MaxLinks == 2
MaxViewGeoms == 2
\* nesting of the environment's recursive mutex
MaxLockDepth == 2

Angles == 0..MaxAngle
Poses == 0..MaxPose
Geoms == 1..MaxGeoms

(***************************************************************************)
(* Marker identifiers: boost::format with %d / %s substitutes the values   *)
(* into the pattern verbatim, without quoting or escaping.                 *)
(***************************************************************************)
JointMarkerId(environment_id, body_name, joint_name) ==
    "Environment[" \o ToString(environment_id) \o "].KinBody[" \o body_name
        \o "].Joint[" \o joint_name \o "]"

LinkMarkerId(environment_id, body_name, link_name) ==
    "Environment[" \o ToString(environment_id) \o "].KinBody[" \o body_name
        \o "].Link[" \o link_name \o "]"

\* the environment, body, joint and link the two marker objects of the
\* state machine are built on
EnvId == 1
BodyName == "robot"
JointName == "elbow"
LinkName == "forearm"
TheJointId == JointMarkerId(EnvId, BodyName, JointName)
TheLinkId == LinkMarkerId(EnvId, BodyName, LinkName)
\* std::string default value: the name of a marker message never filled in
EmptyName == ""

VARIABLES
    \* ---- the process
    crashed,          \* the process died on a null dereference
    lastOp,           \* the operation that produced this state
    calls,            \* marker-server calls issued by that operation, in order
    \* ---- interactive marker server
    server_markers,   \* names of the markers the server holds
    server_callbacks, \* names with a feedback callback registered
    \* ---- the joint of the kinematic model
    jointAlive,       \* joint_.lock() resolves
    jointType,        \* GetType(): "revolute" or another type
    jointStatic,      \* IsStatic()
    jointMimic,       \* IsMimic()
    jointValue,       \* GetValue(0)
    jointPoseLive,    \* GetJointPose(joint): pose derived from axis and anchor
    \* ---- JointMarker object
    jm,               \* "none", "live", "destroyed"
    joint_pose_,
    joint_initial_,
    joint_delta_,
    created_,
    force_update_,
    active_,
    marker_name,      \* marker_.name
    marker_frame,     \* marker_.header.frame_id
    lastButton,       \* the last MOUSE_DOWN / MOUSE_UP the callback processed, or "none"
    \* ---- the link of the kinematic model
    linkAlive,        \* link_.lock() resolves
    geoms,            \* GetGeometries(): the geometry objects, in order
    geomVisible,      \* IsVisible() of each geometry object
    geomType,         \* GetType() of each geometry object
    geomRenderFile,   \* GetRenderFilename() of each geometry object
    geomLook,         \* colour, transparency and dimensions of each geometry object
    \* ---- LinkMarker object
    lm,               \* "none", "live", "destroyed"
    is_ghost_,
    render_mode_,
    markers,          \* visual_control_->markers
    geometry_markers_,\* geometry object -> index of its element of markers, or NULL
    \* ---- what happened to the link since the last LinkMarker::EnvironmentSync
    synced,           \* a sync has run
    visibleAtSync,    \* the visibility, at that sync, of the geometries the link
                      \* held then and has held ever since
    listChangedSince, \* a geometry was added or removed since
    modeChangedSince, \* SetRenderMode changed the mode since
    \* ---- what the operation that produced this state, when it is a sync of
    \* the LinkMarker, found to have happened since the sync before it
    prevSynced,       \* a sync had run before
    prevToggled,      \* some geometry's visibility differed from the one it had then
    prevListChanged,  \* a geometry had been added or removed
    prevModeChanged,  \* the render mode had been changed
    \* ---- two joints, or two links, of one environment and their identifiers
    idKind,           \* "none", "Joint" or "Link": which id() has been evaluated
    idSubjects,       \* the two <<body name, joint or link name>>
    idOut,            \* the two strings id() returned
    \* ---- one geometry handed to LinkMarker::CreateGeometry(GeometryPtr)
    cgGeometry,       \* the geometry: its type, render file and look
    cgGhost,          \* is_ghost_ of the LinkMarker that builds the primitive
    cgMarker,         \* the MarkerPtr returned, NotBuilt before the call
    \* ---- two LinkMarker objects constructed for the same link
    pm,               \* of each object: "none", "live" or "destroyed"
    pmGhost,          \* is_ghost_ of each object
    pmMap,            \* geometry_markers_ of each object
    pmInserted,       \* whether the object has inserted its marker
    \* ---- SuperViewer and the world it draws
    m_autoSync,       \* SuperViewer::m_autoSync
    envLockDepth,     \* times the viewer's thread holds the environment's mutex
    nBodies,          \* bodies GetBodies returns
    nLinks,           \* links of each body
    aabbValid,        \* per geometry of each link: its bounding box is not NaN
    vEmitted,         \* <<body, link, geometry>> of the ShapeMarkers of the last sync
    \* ---- JointMarker::EnvironmentSync taken one statement at a time
    syncPc            \* the statement the sync context is at, "idle" between syncs

procVars == <<crashed, lastOp, calls>>
serverVars == <<server_markers, server_callbacks>>
jointEnvVars == <<jointAlive, jointType, jointStatic, jointMimic, jointValue, jointPoseLive>>
jointObjVars == <<jm, joint_pose_, joint_initial_, joint_delta_, created_,
                  force_update_, active_, marker_name, marker_frame, lastButton>>
jointVars == <<jointEnvVars, jointObjVars>>
linkEnvVars == <<linkAlive, geoms, geomVisible, geomType, geomRenderFile, geomLook>>
linkObjVars == <<lm, is_ghost_, render_mode_, markers, geometry_markers_>>
sinceVars == <<synced, visibleAtSync, listChangedSince, modeChangedSince>>
prevVars == <<prevSynced, prevToggled, prevListChanged, prevModeChanged>>
linkVars == <<linkEnvVars, linkObjVars, sinceVars, prevVars>>
idVars == <<idKind, idSubjects, idOut>>
geomFnVars == <<cgGeometry, cgGhost, cgMarker>>
\* the machines that share nothing with the joint, link and identifier machines
pairVars == <<pm, pmGhost, pmMap, pmInserted>>
viewerVars == <<m_autoSync, envLockDepth, nBodies, nLinks, aabbValid, vEmitted>>
raceVars == <<syncPc>>
restVars == <<geomFnVars, pairVars, viewerVars, raceVars>>
vars == <<procVars, serverVars, jointVars, linkVars, idVars, restVars>>
\* what the operations of each machine leave alone
notJoint == <<linkVars, idVars, restVars>>
notLink == <<jointVars, idVars, restVars>>
notId == <<procVars, serverVars, jointVars, linkVars, restVars>>
notGeomFn ==
    <<procVars, serverVars, jointVars, linkVars, idVars, pairVars, viewerVars, raceVars>>
notPair == <<jointVars, linkVars, idVars, geomFnVars, viewerVars, raceVars>>
notViewer == <<serverVars, jointVars, linkVars, idVars, geomFnVars, pairVars, raceVars>>
notRace == <<linkVars, idVars, geomFnVars, pairVars, viewerVars>>

Call(op, name) == [op |-> op, name |-> name]

\* the ops of a call sequence
CallOps(cs) == [i \in 1..Len(cs) |-> cs[i].op]

\* mutant: an erase that leaves the marker on the server
ServerEraseNothing(held, name) == held
\* InteractiveMarkerServer::erase as the destructors call it: the markers the
\* server holds afterwards
ServerErase(held, name) == held \ {name}

(***************************************************************************)
(* JointMarker                                                             *)
(***************************************************************************)
JointTypes == {"revolute", "prismatic"}
Frames == {"/world", "/base"}
kDefaultWorldFrameId == "/world"

\* JointMarker::angle
angle == joint_initial_ + joint_delta_

\* the test of the constructor that lets it register the control
Controllable == jointType = "revolute" /\ ~jointStatic /\ ~jointMimic

\* JointMarker::JointMarker
JointMarkerCtor ==
    /\ ~crashed /\ jm = "none" /\ jointAlive
    /\ UNCHANGED notJoint
    /\ jm' = "live"
    /\ joint_pose_' = jointPoseLive
    /\ joint_initial_' = jointValue
    /\ joint_delta_' = 0
    /\ created_' = FALSE
    /\ force_update_' = TRUE
    /\ active_' = FALSE
    /\ IF Controllable
       THEN /\ marker_frame' = kDefaultWorldFrameId
            /\ marker_name' = TheJointId
            /\ server_markers' = server_markers \cup {TheJointId}
            /\ server_callbacks' = server_callbacks \cup {TheJointId}
            /\ calls' = <<Call("insert", TheJointId), Call("setCallback", TheJointId)>>
       ELSE /\ UNCHANGED <<marker_frame, marker_name, serverVars>>
            /\ calls' = <<>>
    /\ lastOp' = "JointMarkerCtor"
    /\ lastButton' = "none"
    /\ UNCHANGED <<crashed, jointEnvVars>>

\* JointMarker::~JointMarker
JointMarkerDtor ==
    /\ ~crashed /\ jm = "live"
    /\ UNCHANGED notJoint
    /\ jm' = "destroyed"
    /\ server_markers' = ServerErase(server_markers, marker_name)
    /\ server_callbacks' = server_callbacks \ {marker_name}
    /\ calls' = <<Call("erase", marker_name)>>
    /\ lastOp' = "JointMarkerDtor"
    /\ UNCHANGED <<crashed, jointEnvVars, joint_pose_, joint_initial_, joint_delta_,
                   created_, force_update_, active_, marker_name, marker_frame, lastButton>>

\* mutant: set_pose that forgets the drag test
SetPoseUnguarded(active, old, pose) == pose
\* the value set_pose leaves in joint_pose_
SetPoseValue(active, old, pose) == IF ~active THEN pose ELSE old

\* JointMarker::set_pose
set_pose ==
    /\ ~crashed /\ jm = "live"
    /\ UNCHANGED notJoint
    /\ \E pose \in Poses : joint_pose_' = SetPoseValue(active_, joint_pose_, pose)
    /\ calls' = <<>>
    /\ lastOp' = "set_pose"
    /\ UNCHANGED <<crashed, serverVars, jointEnvVars, jm, joint_initial_, joint_delta_,
                   created_, force_update_, active_, marker_name, marker_frame, lastButton>>

\* JointMarker::set_parent_frame
set_parent_frame ==
    /\ ~crashed /\ jm = "live"
    /\ UNCHANGED notJoint
    /\ \E frame_id \in Frames : marker_frame' = frame_id
    /\ force_update_' = TRUE
    /\ calls' = <<>>
    /\ lastOp' = "set_parent_frame"
    /\ UNCHANGED <<crashed, serverVars, jointEnvVars, jm, joint_pose_, joint_initial_,
                   joint_delta_, created_, active_, marker_name, lastButton>>

\* mutant: the sync refreshes the angle even while a drag is in progress
SyncInitialAlways(active, initial, live) == live
\* mutant: the sync never refreshes the angle
SyncInitialNever(active, initial, live) == initial
\* joint_initial_ after the "if (!active_)" block of EnvironmentSync
SyncInitial(active, initial, live) == IF ~active THEN live ELSE initial
\* joint_delta_ after the "if (!active_)" block of EnvironmentSync
SyncDelta(active, delta) == IF ~active THEN 0 ELSE delta

\* a setPose call with the pose it carries
CallPose(op, name, pose) == [op |-> op, name |-> name, pose |-> pose]

\* mutant: the sync re-inserts the marker whatever force_update_ is
JointSyncCallsAlwaysInsert ==
    <<Call("insert", marker_name), CallPose("setPose", marker_name, joint_pose_)>>
\* the server calls of JointMarker::EnvironmentSync
JointSyncCalls ==
    (IF force_update_ THEN <<Call("insert", marker_name)>> ELSE <<>>)
        \o <<CallPose("setPose", marker_name, joint_pose_)>>

\* JointMarker::EnvironmentSync.  joint() is dereferenced only in the
\* "if (!active_)" block; with the weak reference expired that is a null
\* dereference, after the server calls have been made: the process dies, or
\* the read yields an arbitrary value.
JointEnvironmentSync ==
    /\ ~crashed /\ jm = "live"
    /\ UNCHANGED notJoint
    /\ calls' = JointSyncCalls
    /\ server_markers' = IF force_update_ THEN server_markers \cup {marker_name}
                                          ELSE server_markers
    /\ force_update_' = FALSE
    /\ \/ /\ active_ \/ jointAlive
          /\ joint_initial_' = SyncInitial(active_, joint_initial_, jointValue)
          /\ joint_delta_' = SyncDelta(active_, joint_delta_)
          /\ created_' = TRUE
          /\ lastOp' = "JointSync"
          /\ UNCHANGED crashed
       \/ /\ ~active_ /\ ~jointAlive
          /\ \/ /\ crashed' = TRUE
                /\ lastOp' = "JointSyncCrash"
                /\ UNCHANGED <<joint_initial_, joint_delta_, created_>>
             \/ /\ \E garbage \in Angles :
                      joint_initial_' = SyncInitial(active_, joint_initial_, garbage)
                /\ joint_delta_' = SyncDelta(active_, joint_delta_)
                /\ created_' = TRUE
                /\ lastOp' = "JointSync"
                /\ UNCHANGED crashed
    /\ UNCHANGED <<server_callbacks, jointEnvVars, jm, joint_pose_, active_,
                   marker_name, marker_frame, lastButton>>

FeedbackEvents == {"MOUSE_DOWN", "MOUSE_UP", "POSE_UPDATE", "KEEP_ALIVE"}

\* the angle about the control axis of the handle pose relative to the base
\* pose, negated: -axisAngleFromQuat((pose().inverse() * feedback->pose).rot)[2]
DeltaFromFeedback(base, feedback_pose) == -(feedback_pose - base)

\* mutant: the mouse-up case is missing
ActiveAfterDownOnly(event_type, active) ==
    IF event_type = "MOUSE_DOWN" THEN TRUE ELSE active
\* active_ after the first two tests of JointCallback
ActiveAfter(event_type, active) ==
    CASE event_type = "MOUSE_DOWN" -> TRUE
      [] event_type = "MOUSE_UP" -> FALSE
      [] OTHER -> active

\* JointMarker::JointCallback, delivered by the server to a registered callback
JointCallback ==
    /\ ~crashed /\ jm = "live" /\ marker_name \in server_callbacks
    /\ UNCHANGED notJoint
    /\ \E event_type \in FeedbackEvents, feedback_pose \in Poses :
          /\ active_' = ActiveAfter(event_type, active_)
          /\ joint_delta_' = IF event_type = "POSE_UPDATE"
                             THEN DeltaFromFeedback(joint_pose_, feedback_pose)
                             ELSE joint_delta_
          /\ lastButton' = IF event_type \in {"MOUSE_DOWN", "MOUSE_UP"}
                            THEN event_type ELSE lastButton
          /\ lastOp' = event_type
    /\ calls' = <<>>
    /\ UNCHANGED <<crashed, serverVars, jointEnvVars, jm, joint_pose_, joint_initial_,
                   created_, force_update_, marker_name, marker_frame>>

\* ---- the kinematic model moves on its own
JointSetValue ==
    /\ ~crashed /\ jointAlive
    /\ UNCHANGED notJoint
    /\ \E v \in Angles : v # jointValue /\ jointValue' = v
    /\ calls' = <<>>
    /\ lastOp' = "JointSetValue"
    /\ UNCHANGED <<crashed, serverVars, jointAlive, jointType, jointStatic, jointMimic,
                   jointPoseLive, jointObjVars>>

JointMove ==
    /\ ~crashed /\ jointAlive
    /\ UNCHANGED notJoint
    /\ \E p \in Poses : p # jointPoseLive /\ jointPoseLive' = p
    /\ calls' = <<>>
    /\ lastOp' = "JointMove"
    /\ UNCHANGED <<crashed, serverVars, jointAlive, jointType, jointStatic, jointMimic,
                   jointValue, jointObjVars>>

\* the body is removed from the environment: the weak reference expires
JointExpire ==
    /\ ~crashed /\ jointAlive
    /\ UNCHANGED notJoint
    /\ jointAlive' = FALSE
    /\ calls' = <<>>
    /\ lastOp' = "JointExpire"
    /\ UNCHANGED <<crashed, serverVars, jointType, jointStatic, jointMimic, jointValue,
                   jointPoseLive, jointObjVars>>

(***************************************************************************)
(* LinkMarker                                                              *)
(***************************************************************************)
GeometryTypes == {"GT_None", "GT_Box", "GT_Sphere", "GT_Cylinder", "GT_TriMesh", "GT_Unknown"}
RenderFiles ==
    {"", "__norenderif__", "__norenderif__:forearm.dae", "forearm.dae", "a.dae"}
RenderModes == {"kVisual", "kCollision"}
\* MarkerPtr(): no primitive
NoMarker == [type |-> "none"]
\* NULL in geometry_markers_
NullMarker == 0

\* mutant: no render file is ever taken to carry the prefix
StartsWithNever(s, prefix) == FALSE

\* boost::algorithm::starts_with
starts_with(s, prefix) ==
    Len(s) >= Len(prefix) /\ SubSeq(s, 1, Len(prefix)) = prefix

\* colours and alpha are kept in tenths: 10 is 1.0
\* LinkMarker::kGhostColor, OpenRAVE::Vector(0, 1, 0, 0.2)
kGhostColor == [r |-> 0, g |-> 10, b |-> 0, a |-> 2]

\* mutant: the ghost test is left out, every primitive takes the geometry's colour
MarkerColorOfGeometry(look, is_ghost) ==
    [r |-> look.diffuse.r, g |-> look.diffuse.g, b |-> look.diffuse.b,
     a |-> 10 - look.transparency]
\* the colour LinkMarker::CreateGeometry(GeometryPtr) gives the primitive
MarkerColor(look, is_ghost) ==
    IF is_ghost
    THEN kGhostColor
    ELSE [r |-> look.diffuse.r, g |-> look.diffuse.g, b |-> look.diffuse.b,
          a |-> 10 - look.transparency]

\* mutant: a box is scaled by the render scale of the geometry, not its extents
CreateGeometryMarkerRenderScaled(type, render_filename, look, is_ghost) ==
    IF type = "GT_Box"
    THEN [type |-> "CUBE", color |-> MarkerColor(look, is_ghost),
          scale |-> look.render_scale]
    ELSE NoMarker

\* LinkMarker::CreateGeometry(GeometryPtr): the primitive of one geometry
CreateGeometryMarker(type, render_filename, look, is_ghost) ==
    LET render_mesh_path == IF starts_with(render_filename, "__norenderif__")
                            THEN "" ELSE render_filename
        color == MarkerColor(look, is_ghost)
    IN IF render_mesh_path # ""
       THEN [type |-> "MESH_RESOURCE",
             color |-> color,
             scale |-> look.render_scale,
             mesh_resource |-> "file://" \o render_mesh_path,
             mesh_use_embedded_materials |-> ~is_ghost]
       ELSE CASE type = "GT_None" -> NoMarker
              [] type = "GT_Box" ->
                    [type |-> "CUBE", color |-> color, scale |-> look.box_extents]
              [] type = "GT_Sphere" ->
                    [type |-> "SPHERE", color |-> color,
                     scale |-> <<look.sphere_radius, look.sphere_radius,
                                 look.sphere_radius>>]
              [] type = "GT_Cylinder" ->
                    [type |-> "CYLINDER", color |-> color,
                     scale |-> <<look.cylinder_radius, look.cylinder_radius,
                                 look.cylinder_height>>]
              [] type = "GT_TriMesh" -> NoMarker
              [] OTHER -> NoMarker

\* mutant: a hidden geometry is recorded with the null marker instead of
\* being skipped
RECURSIVE CreateGeometryLoopMapsHidden(_, _, _, _)
CreateGeometryLoopMapsHidden(is_ghost, list, i, acc) ==
    IF i > Len(list) THEN acc
    ELSE LET geometry == list[i]
             new_marker == CreateGeometryMarker(geomType[geometry],
                                                geomRenderFile[geometry],
                                                geomLook[geometry], is_ghost)
         IN IF geomVisible[geometry] /\ new_marker # NoMarker
            THEN CreateGeometryLoopMapsHidden(is_ghost, list, i + 1,
                     <<Append(acc[1], new_marker),
                       [g \in DOMAIN acc[2] \cup {geometry} |->
                            IF g = geometry THEN Len(acc[1]) + 1 ELSE acc[2][g]]>>)
            ELSE CreateGeometryLoopMapsHidden(is_ghost, list, i + 1,
                     <<acc[1],
                       [g \in DOMAIN acc[2] \cup {geometry} |->
                            IF g = geometry THEN NullMarker ELSE acc[2][g]]>>)

\* the loop of LinkMarker::CreateGeometry() over list[i..]: acc is
\* <<visual_control_->markers, geometry_markers_>>
RECURSIVE CreateGeometryLoop(_, _, _, _)
CreateGeometryLoop(is_ghost, list, i, acc) ==
    IF i > Len(list) THEN acc
    ELSE LET geometry == list[i]
             new_marker == CreateGeometryMarker(geomType[geometry],
                                                geomRenderFile[geometry],
                                                geomLook[geometry], is_ghost)
         IN IF ~geomVisible[geometry]
            THEN CreateGeometryLoop(is_ghost, list, i + 1, acc)
            ELSE IF new_marker # NoMarker
            THEN CreateGeometryLoop(is_ghost, list, i + 1,
                     <<Append(acc[1], new_marker),
                       [g \in DOMAIN acc[2] \cup {geometry} |->
                            IF g = geometry THEN Len(acc[1]) + 1 ELSE acc[2][g]]>>)
            ELSE CreateGeometryLoop(is_ghost, list, i + 1,
                     <<acc[1],
                       [g \in DOMAIN acc[2] \cup {geometry} |->
                            IF g = geometry THEN NullMarker ELSE acc[2][g]]>>)

\* LinkMarker::CreateGeometry(): both containers are cleared, then rebuilt
CreateGeometry(is_ghost) ==
    CreateGeometryLoop(is_ghost, geoms, 1, <<(<<>>), [g \in {} |-> NullMarker]>>)

\* mutant: the change test compares in the wrong sense
GeometryChangedInverted(geometry_markers, geometry) ==
    geomVisible[geometry] # (geometry \notin DOMAIN geometry_markers)
\* mutant: the change test sees a geometry shown, not a geometry hidden
GeometryChangedShownOnly(geometry_markers, geometry) ==
    geomVisible[geometry] /\ geometry \notin DOMAIN geometry_markers
\* the change test of one geometry in LinkMarker::EnvironmentSync
GeometryChanged(geometry_markers, geometry) ==
    LET is_missing == geometry \notin DOMAIN geometry_markers
        is_visible == geomVisible[geometry]
    IN is_visible = is_missing

\* the detection loop of LinkMarker::EnvironmentSync over list[i..], which
\* stops at the first geometry found changed
RECURSIVE IsChangedLoop(_, _, _, _)
IsChangedLoop(geometry_markers, list, i, is_changed) ==
    IF i > Len(list) THEN is_changed
    ELSE LET now == is_changed \/ GeometryChanged(geometry_markers, list[i])
         IN IF now THEN TRUE ELSE IsChangedLoop(geometry_markers, list, i + 1, now)

\* mutant: the pose is pushed in the tick of a recreation too
LinkSyncCallsBoth(is_changed) ==
    IF is_changed THEN <<Call("insert", TheLinkId), Call("setPose", TheLinkId)>>
    ELSE <<Call("setPose", TheLinkId)>>
\* the server calls of LinkMarker::EnvironmentSync
LinkSyncCalls(is_changed) ==
    IF is_changed THEN <<Call("insert", TheLinkId)>> ELSE <<Call("setPose", TheLinkId)>>

\* some geometry the link has held since the last sync is now hidden and was
\* shown then, or the reverse
ToggledSince ==
    \E g \in DOMAIN visibleAtSync : geomVisible[g] # visibleAtSync[g]

\* any operation but a sync of the LinkMarker
NoSync ==
    /\ prevSynced' = FALSE
    /\ prevToggled' = FALSE
    /\ prevListChanged' = FALSE
    /\ prevModeChanged' = FALSE

\* what the sync found to have happened since the sync before it
RecordSync ==
    /\ prevSynced' = synced
    /\ prevToggled' = ToggledSince
    /\ prevListChanged' = listChangedSince
    /\ prevModeChanged' = modeChangedSince
    /\ synced' = TRUE
    /\ visibleAtSync' = [g \in {geoms[i] : i \in 1..Len(geoms)} |-> geomVisible[g]]
    /\ listChangedSince' = FALSE
    /\ modeChangedSince' = FALSE

\* LinkMarker::LinkMarker: fills in the marker message, calls nothing
LinkMarkerCtor ==
    /\ ~crashed /\ lm = "none" /\ linkAlive
    /\ UNCHANGED notLink
    /\ lm' = "live"
    /\ \E is_ghost \in BOOLEAN : is_ghost_' = is_ghost
    /\ render_mode_' = "kVisual"
    /\ markers' = <<>>
    /\ geometry_markers_' = [g \in {} |-> NullMarker]
    /\ calls' = <<>>
    /\ lastOp' = "LinkMarkerCtor"
    /\ UNCHANGED <<crashed, serverVars, linkEnvVars, sinceVars>>
    /\ NoSync

\* LinkMarker::~LinkMarker
LinkMarkerDtor ==
    /\ ~crashed /\ lm = "live"
    /\ UNCHANGED notLink
    /\ lm' = "destroyed"
    /\ server_markers' = ServerErase(server_markers, TheLinkId)
    /\ calls' = <<Call("erase", TheLinkId)>>
    /\ lastOp' = "LinkMarkerDtor"
    /\ UNCHANGED <<crashed, server_callbacks, linkEnvVars, is_ghost_, render_mode_, markers,
                   geometry_markers_, sinceVars>>
    /\ NoSync

\* LinkMarker::EnvironmentSync.  link() is dereferenced unchecked at the top of
\* the detection loop; with the weak reference expired that is a null
\* dereference: the process dies, or the read yields an empty geometry list
\* and an arbitrary transform.
LinkEnvironmentSync ==
    /\ ~crashed /\ lm = "live"
    /\ UNCHANGED notLink
    /\ \/ /\ linkAlive
          /\ LET is_changed == IsChangedLoop(geometry_markers_, geoms, 1, FALSE)
             IN /\ calls' = LinkSyncCalls(is_changed)
                /\ IF is_changed
                   THEN /\ markers' = CreateGeometry(is_ghost_)[1]
                        /\ geometry_markers_' = CreateGeometry(is_ghost_)[2]
                        /\ server_markers' = server_markers \cup {TheLinkId}
                   ELSE UNCHANGED <<markers, geometry_markers_, server_markers>>
          /\ RecordSync
          /\ lastOp' = "LinkSync"
          /\ UNCHANGED crashed
       \/ /\ ~linkAlive
          /\ \/ /\ crashed' = TRUE
                /\ calls' = <<>>
                /\ lastOp' = "LinkSyncCrash"
                /\ NoSync
                /\ UNCHANGED sinceVars
             \/ /\ calls' = LinkSyncCalls(FALSE)
                /\ RecordSync
                /\ lastOp' = "LinkSync"
                /\ UNCHANGED crashed
          /\ UNCHANGED <<markers, geometry_markers_, server_markers>>
    /\ UNCHANGED <<server_callbacks, linkEnvVars, lm, is_ghost_, render_mode_>>

\* LinkMarker::SetRenderMode
SetRenderMode ==
    /\ ~crashed /\ lm = "live"
    /\ UNCHANGED notLink
    /\ \E mode \in RenderModes :
          /\ render_mode_' = mode
          /\ modeChangedSince' = (modeChangedSince \/ mode # render_mode_)
    /\ calls' = <<>>
    /\ lastOp' = "SetRenderMode"
    /\ UNCHANGED <<crashed, serverVars, linkEnvVars, lm, is_ghost_, markers, geometry_markers_,
                   synced, visibleAtSync, listChangedSince>>
    /\ NoSync

\* ---- the kinematic model changes on its own
InList(g) == \E i \in 1..Len(geoms) : geoms[i] = g

\* Geometry::SetVisible on a geometry of the link
GeomSetVisible ==
    /\ ~crashed /\ linkAlive /\ lm # "destroyed"
    /\ UNCHANGED notLink
    /\ \E g \in Geoms :
          /\ InList(g)
          /\ geomVisible' = [geomVisible EXCEPT ![g] = ~geomVisible[g]]
    /\ calls' = <<>>
    /\ lastOp' = "LinkEnv"
    /\ UNCHANGED <<crashed, serverVars, linkAlive, geoms, geomType, geomRenderFile, geomLook,
                   linkObjVars, sinceVars>>
    /\ NoSync

\* a geometry object is added at the end of the link's list
GeomAdd ==
    /\ ~crashed /\ linkAlive /\ lm # "destroyed"
    /\ UNCHANGED notLink
    /\ \E g \in Geoms, visible \in BOOLEAN :
          /\ ~InList(g)
          /\ geoms' = Append(geoms, g)
          /\ geomVisible' = [geomVisible EXCEPT ![g] = visible]
    /\ listChangedSince' = TRUE
    /\ calls' = <<>>
    /\ lastOp' = "LinkEnv"
    /\ UNCHANGED <<crashed, serverVars, linkAlive, geomType, geomRenderFile, geomLook,
                   linkObjVars, synced, visibleAtSync, modeChangedSince>>
    /\ NoSync

\* a geometry object is taken out of the link's list
GeomRemove ==
    /\ ~crashed /\ linkAlive /\ lm # "destroyed"
    /\ UNCHANGED notLink
    /\ \E i \in 1..Len(geoms) :
          /\ geoms' = SubSeq(geoms, 1, i - 1) \o SubSeq(geoms, i + 1, Len(geoms))
          /\ geomVisible' = [geomVisible EXCEPT ![geoms[i]] = TRUE]
          /\ visibleAtSync' = [g \in DOMAIN visibleAtSync \ {geoms[i]} |-> visibleAtSync[g]]
    /\ listChangedSince' = TRUE
    /\ calls' = <<>>
    /\ lastOp' = "LinkEnv"
    /\ UNCHANGED <<crashed, serverVars, linkAlive, geomType, geomRenderFile, geomLook,
                   linkObjVars, synced, modeChangedSince>>
    /\ NoSync

\* the body is removed from the environment: the weak reference expires
LinkExpire ==
    /\ ~crashed /\ linkAlive /\ lm # "destroyed"
    /\ UNCHANGED notLink
    /\ linkAlive' = FALSE
    /\ calls' = <<>>
    /\ lastOp' = "LinkEnv"
    /\ UNCHANGED <<crashed, serverVars, geoms, geomVisible, geomType, geomRenderFile, geomLook,
                   linkObjVars, sinceVars>>
    /\ NoSync

\* the geometries the link machine is run on: a box, which yields a
\* primitive, and a triangle mesh without render file, which yields none
GeometrySamples == { <<"GT_Box", "">>, <<"GT_TriMesh", "">> }

\* colour (tenths), transparency (tenths) and dimensions of a geometry; the
\* dimensions all differ, so that a primitive scaled by the wrong one shows
Look(diffuse, transparency, unit) ==
    [diffuse |-> diffuse, transparency |-> transparency,
     box_extents |-> <<unit, unit + 1, unit + 2>>,
     sphere_radius |-> unit + 3,
     cylinder_radius |-> unit + 4, cylinder_height |-> unit + 5,
     render_scale |-> <<unit + 6, unit + 7, unit + 8>>]
Red == [r |-> 10, g |-> 0, b |-> 0]
Grey == [r |-> 5, g |-> 5, b |-> 5]
\* the look of the geometries of the machines that do not vary it
DefaultLook == Look(Grey, 0, 1)

InitLinkEnv ==
    /\ linkAlive = TRUE
    /\ geoms = <<>>
    /\ geomVisible = [g \in Geoms |-> TRUE]
    /\ \E f \in [Geoms -> GeometrySamples] :
          /\ geomType = [g \in Geoms |-> f[g][1]]
          /\ geomRenderFile = [g \in Geoms |-> f[g][2]]
    /\ geomLook = [g \in Geoms |-> DefaultLook]

InitLinkObj ==
    /\ lm = "none"
    /\ is_ghost_ = FALSE
    /\ render_mode_ = "kVisual"
    /\ markers = <<>>
    /\ geometry_markers_ = [g \in {} |-> NullMarker]
    /\ synced = FALSE
    /\ visibleAtSync = [g \in {} |-> TRUE]
    /\ listChangedSince = FALSE
    /\ modeChangedSince = FALSE
    /\ prevSynced = FALSE
    /\ prevToggled = FALSE
    /\ prevListChanged = FALSE
    /\ prevModeChanged = FALSE

\* a link the joint machine leaves alone
IdleLink ==
    /\ linkAlive = TRUE
    /\ geoms = <<>>
    /\ geomVisible = [g \in Geoms |-> TRUE]
    /\ geomType = [g \in Geoms |-> "GT_Box"]
    /\ geomRenderFile = [g \in Geoms |-> ""]
    /\ geomLook = [g \in Geoms |-> DefaultLook]
    /\ InitLinkObj

\* a joint the link machine leaves alone
IdleJoint ==
    /\ jointAlive = TRUE
    /\ jointType = "revolute"
    /\ jointStatic = FALSE
    /\ jointMimic = FALSE
    /\ jointValue = 0
    /\ jointPoseLive = 0
    /\ jm = "none"
    /\ joint_pose_ = 0
    /\ joint_initial_ = 0
    /\ joint_delta_ = 0
    /\ created_ = FALSE
    /\ force_update_ = FALSE
    /\ active_ = FALSE
    /\ marker_name = EmptyName
    /\ marker_frame = ""
    /\ lastButton = "none"

NextLink ==
    \/ LinkMarkerCtor
    \/ LinkMarkerDtor
    \/ LinkEnvironmentSync
    \/ SetRenderMode
    \/ GeomSetVisible
    \/ GeomAdd
    \/ GeomRemove
    \/ LinkExpire

(***************************************************************************)
(* Identifiers of two joints or two links of one environment               *)
(***************************************************************************)
\* body names and joint/link names: OpenRAVE names are strings
BodyNames == {"arm", "leg", "arm].Joint[a", "arm].Link[a"}
PartNames == {"a", "b", "a].Joint[b", "a].Link[b"}
Subjects == BodyNames \X PartNames

\* JointMarker::id of both joints
JointIds ==
    /\ idKind = "none"
    /\ idKind' = "Joint"
    /\ idOut' = <<JointMarkerId(EnvId, idSubjects[1][1], idSubjects[1][2]),
                  JointMarkerId(EnvId, idSubjects[2][1], idSubjects[2][2])>>
    /\ UNCHANGED <<idSubjects, notId>>

\* LinkMarker::id of both links
LinkIds ==
    /\ idKind = "none"
    /\ idKind' = "Link"
    /\ idOut' = <<LinkMarkerId(EnvId, idSubjects[1][1], idSubjects[1][2]),
                  LinkMarkerId(EnvId, idSubjects[2][1], idSubjects[2][2])>>
    /\ UNCHANGED <<idSubjects, notId>>

\* two different joints (links): of bodies of different names, or of
\* different names within one body
InitId ==
    /\ idKind = "none"
    /\ idSubjects \in {p \in Subjects \X Subjects : p[1] # p[2]}
    /\ idOut = <<"", "">>

\* no identifier is being compared
IdleId ==
    /\ idKind = "none"
    /\ idSubjects = <<(<<"arm", "a">>), (<<"arm", "b">>)>>
    /\ idOut = <<"", "">>

NextId == JointIds \/ LinkIds

(***************************************************************************)
(* LinkMarker::CreateGeometry(GeometryPtr) on one geometry                 *)
(***************************************************************************)
\* cgMarker before the call
NotBuilt == [type |-> "not built"]
\* the looks the primitive is built from
Looks == {Look(diffuse, transparency, unit) :
              diffuse \in {Red, Grey}, transparency \in {0, 3, 10}, unit \in {1, 11}}

\* any geometry, built by a ghost or a non-ghost LinkMarker
InitGeomFn ==
    /\ cgGeometry \in [type : GeometryTypes, render_filename : RenderFiles, look : Looks]
    /\ cgGhost \in BOOLEAN
    /\ cgMarker = NotBuilt

\* no primitive is being built
IdleGeomFn ==
    /\ cgGeometry = [type |-> "GT_None", render_filename |-> "", look |-> DefaultLook]
    /\ cgGhost = FALSE
    /\ cgMarker = NotBuilt

\* the call of LinkMarker::CreateGeometry(GeometryPtr)
BuildPrimitive ==
    /\ cgMarker = NotBuilt
    /\ cgMarker' = CreateGeometryMarker(cgGeometry.type, cgGeometry.render_filename,
                                        cgGeometry.look, cgGhost)
    /\ UNCHANGED <<cgGeometry, cgGhost, notGeomFn>>

NextGeomFn == BuildPrimitive

(***************************************************************************)
(* Two LinkMarker objects of one link, as a ghost and a non-ghost one      *)
(***************************************************************************)
Objects == {1, 2}

InitPairObjects ==
    /\ pm = [o \in Objects |-> "none"]
    /\ pmGhost = [o \in Objects |-> FALSE]
    /\ pmMap = [o \in Objects |-> [g \in {} |-> NullMarker]]
    /\ pmInserted = [o \in Objects |-> FALSE]

\* no second LinkMarker exists
IdlePair == InitPairObjects

\* LinkMarker::LinkMarker of object o: marker_.name = id(), which is built
\* from the link alone
PairCtor(o) ==
    /\ ~crashed /\ pm[o] = "none" /\ linkAlive
    /\ pm' = [pm EXCEPT ![o] = "live"]
    /\ \E is_ghost \in BOOLEAN : pmGhost' = [pmGhost EXCEPT ![o] = is_ghost]
    /\ calls' = <<>>
    /\ lastOp' = "LinkMarkerCtor"
    /\ UNCHANGED <<crashed, serverVars, pmMap, pmInserted, notPair>>

\* LinkMarker::EnvironmentSync of object o
PairSync(o) ==
    /\ ~crashed /\ pm[o] = "live" /\ linkAlive
    /\ LET is_changed == IsChangedLoop(pmMap[o], geoms, 1, FALSE)
       IN /\ calls' = LinkSyncCalls(is_changed)
          /\ IF is_changed
             THEN /\ pmMap' = [pmMap EXCEPT ![o] = CreateGeometry(pmGhost[o])[2]]
                  /\ server_markers' = server_markers \cup {TheLinkId}
                  /\ pmInserted' = [pmInserted EXCEPT ![o] = TRUE]
             ELSE UNCHANGED <<pmMap, server_markers, pmInserted>>
    /\ lastOp' = "LinkSync"
    /\ UNCHANGED <<crashed, server_callbacks, pm, pmGhost, notPair>>

\* LinkMarker::~LinkMarker of object o
PairDtor(o) ==
    /\ ~crashed /\ pm[o] = "live"
    /\ pm' = [pm EXCEPT ![o] = "destroyed"]
    /\ server_markers' = ServerErase(server_markers, TheLinkId)
    /\ calls' = <<Call("erase", TheLinkId)>>
    /\ lastOp' = "LinkMarkerDtor"
    /\ UNCHANGED <<crashed, server_callbacks, pmGhost, pmMap, pmInserted, notPair>>

NextPair ==
    \/ \E o \in Objects : PairCtor(o)
    \/ \E o \in Objects : PairSync(o)
    \/ \E o \in Objects : PairDtor(o)
    \/ GeomSetVisible
    \/ GeomAdd

(***************************************************************************)
(* SuperViewer                                                             *)
(***************************************************************************)
\* the geometries of a link, each with a valid or a NaN bounding box
ValiditySeqs == UNION {[1..n -> BOOLEAN] : n \in 0..MaxViewGeoms}

\* the geometry loop of SuperViewer::EnvironmentSync from index k on, for the
\* link the link loop fetched: a NaN box continues with the next geometry,
\* the first valid one gets a ShapeMarker and the loop is left by "break"
RECURSIVE GeometryWalk(_, _, _, _)
GeometryWalk(body, link, k, out) ==
    IF k > Len(aabbValid) THEN out
    ELSE IF ~aabbValid[k] THEN GeometryWalk(body, link, k + 1, out)
    ELSE out \cup {<<body, link, k>>}

\* the link loop from index j on: the link fetched is links.at(i), indexed by
\* the body counter, and the loop is left by "break" after its first round
LinkWalk(i, j, out) ==
    IF j > nLinks THEN out ELSE GeometryWalk(i, i, 1, out)

\* the body loop from index i on, left by "break" after its first round
BodyWalk(i, out) ==
    IF i > nBodies THEN out ELSE LinkWalk(i, 1, out)

\* SuperViewer::SetAutoSync, declared in the header
SetAutoSync(update) == update

\* SuperViewer::SuperViewer: m_autoSync(false), the timer is started
InitViewer ==
    /\ m_autoSync = FALSE
    /\ envLockDepth = 0
    /\ nBodies \in 0..MaxBodies
    /\ nLinks \in 0..MaxLinks
    /\ aabbValid \in ValiditySeqs
    /\ vEmitted = {}

\* no viewer exists
IdleViewer ==
    /\ m_autoSync = FALSE
    /\ envLockDepth = 0
    /\ nBodies = 0
    /\ nLinks = 0
    /\ aabbValid = <<>>
    /\ vEmitted = {}

\* SuperViewer::SetEnvironmentSync
SetEnvironmentSync ==
    /\ ~crashed
    /\ \E update \in BOOLEAN : m_autoSync' = SetAutoSync(update)
    /\ calls' = <<>>
    /\ lastOp' = "SetEnvironmentSync"
    /\ UNCHANGED <<crashed, envLockDepth, nBodies, nLinks, aabbValid, vEmitted, notViewer>>

\* the body of SuperViewer::EnvironmentSync: the mutex is locked, the display
\* is created; without a display the function returns at once, the mutex
\* still locked; otherwise the world is walked and the mutex unlocked
ViewerSyncBody ==
    /\ ~crashed /\ envLockDepth < MaxLockDepth
    /\ \E boxDisplay \in BOOLEAN :
          IF ~boxDisplay
          THEN /\ calls' = <<Call("lock", "env"), Call("createDisplay", "box")>>
               /\ envLockDepth' = envLockDepth + 1
               /\ UNCHANGED vEmitted
          ELSE /\ calls' = <<Call("lock", "env"), Call("createDisplay", "box"),
                             Call("unlock", "env")>>
               /\ vEmitted' = BodyWalk(1, {})
               /\ UNCHANGED envLockDepth
    /\ UNCHANGED <<crashed, m_autoSync, nBodies, nLinks, aabbValid, notViewer>>

\* SuperViewer::EnvironmentSync called by the application
ViewerEnvironmentSync ==
    /\ ViewerSyncBody
    /\ lastOp' = "ViewerEnvironmentSync"

\* SuperViewer::syncUpdate, the slot of the timer started by the constructor
syncUpdate ==
    /\ ViewerSyncBody
    /\ lastOp' = "syncUpdate"

NextViewer ==
    \/ SetEnvironmentSync
    \/ ViewerEnvironmentSync
    \/ syncUpdate

(***************************************************************************)
(* JointMarker::EnvironmentSync statement by statement, with the feedback  *)
(* callback delivered from another context in between                      *)
(***************************************************************************)
\* no sync is in progress
IdleRace == syncPc = "idle"

\* what the statements of the sync leave alone besides the fields they write
SyncStepFrame ==
    UNCHANGED <<crashed, server_callbacks, jointEnvVars, jm, joint_pose_, active_,
                marker_name, marker_frame, lastButton, notRace>>

\* "if (force_update_) { insert; force_update_ = false; }" and setPose
SyncCallServer ==
    /\ ~crashed /\ jm = "live" /\ syncPc = "idle"
    /\ calls' = JointSyncCalls
    /\ server_markers' = IF force_update_ THEN server_markers \cup {marker_name}
                                          ELSE server_markers
    /\ force_update_' = FALSE
    /\ syncPc' = "test"
    /\ lastOp' = "SyncCallServer"
    /\ UNCHANGED <<joint_initial_, joint_delta_, created_>>
    /\ SyncStepFrame

\* "if (!active_)": the flag is read
SyncTestActive ==
    /\ ~crashed /\ jm = "live" /\ syncPc = "test"
    /\ syncPc' = IF ~active_ THEN "write_initial" ELSE "leave"
    /\ calls' = <<>>
    /\ lastOp' = "SyncTestActive"
    /\ UNCHANGED <<server_markers, force_update_, joint_initial_, joint_delta_, created_>>
    /\ SyncStepFrame

\* "joint_initial_ = joint()->GetValue(0);"
SyncWriteInitial ==
    /\ ~crashed /\ jm = "live" /\ syncPc = "write_initial"
    /\ joint_initial_' = jointValue
    /\ syncPc' = "write_delta"
    /\ calls' = <<>>
    /\ lastOp' = "SyncWriteInitial"
    /\ UNCHANGED <<server_markers, force_update_, joint_delta_, created_>>
    /\ SyncStepFrame

\* "joint_delta_ = 0;"
SyncWriteDelta ==
    /\ ~crashed /\ jm = "live" /\ syncPc = "write_delta"
    /\ joint_delta_' = 0
    /\ syncPc' = "leave"
    /\ calls' = <<>>
    /\ lastOp' = "SyncWriteDelta"
    /\ UNCHANGED <<server_markers, force_update_, joint_initial_, created_>>
    /\ SyncStepFrame

\* "created_ = true; return false;"
SyncLeave ==
    /\ ~crashed /\ jm = "live" /\ syncPc = "leave"
    /\ created_' = TRUE
    /\ syncPc' = "idle"
    /\ calls' = <<>>
    /\ lastOp' = "JointSync"
    /\ UNCHANGED <<server_markers, force_update_, joint_initial_, joint_delta_>>
    /\ SyncStepFrame

\* a controllable joint, its marker not yet constructed
InitControllableJoint ==
    /\ jointAlive = TRUE
    /\ jointType = "revolute"
    /\ jointStatic = FALSE
    /\ jointMimic = FALSE
    /\ jointValue \in Angles
    /\ jointPoseLive \in Poses
    /\ jm = "none"
    /\ joint_pose_ = 0
    /\ joint_initial_ = 0
    /\ joint_delta_ = 0
    /\ created_ = FALSE
    /\ force_update_ = FALSE
    /\ active_ = FALSE
    /\ marker_name = EmptyName
    /\ marker_frame = ""
    /\ lastButton = "none"

NextRace ==
    \/ JointMarkerCtor
    \/ SyncCallServer
    \/ SyncTestActive
    \/ SyncWriteInitial
    \/ SyncWriteDelta
    \/ SyncLeave
    \/ JointCallback
    \/ JointSetValue

(***************************************************************************)
(* One body with one link and one joint, and the markers made for them     *)
(***************************************************************************)
\* marker_.controls of the JointMarker: the constructor pushes the one
\* "rotate" control after its tests of the joint, and nothing else adds one
JointMarkerControls ==
    IF jm # "none" /\ Controllable
    THEN <<[name |-> "rotate", interaction_mode |-> "ROTATE_AXIS"]>>
    ELSE <<>>

\* interactive_marker_->controls of the LinkMarker: controls.resize(1) in the
\* constructor; visual_control_->markers is what CreateGeometry() rebuilds
LinkMarkerControls ==
    IF lm = "none" THEN <<>>
    ELSE <<[name |-> TheLinkId \o ".Geometry[visual]",
            interaction_mode |-> "BUTTON",
            always_visible |-> TRUE,
            markers |-> markers]>>

\* the link holds one visible box geometry without render file
InitBoxLink ==
    /\ linkAlive = TRUE
    /\ geoms = <<1>>
    /\ geomVisible = [g \in Geoms |-> TRUE]
    /\ geomType = [g \in Geoms |-> "GT_Box"]
    /\ geomRenderFile = [g \in Geoms |-> ""]
    /\ \E look \in Looks : geomLook = [g \in Geoms |-> look]

NextBody ==
    \/ JointMarkerCtor
    \/ LinkMarkerCtor
    \/ JointEnvironmentSync
    \/ LinkEnvironmentSync

\* the machines a specification does not run
IdleRest == IdleGeomFn /\ IdlePair /\ IdleViewer /\ IdleRace

InitProc ==
    /\ crashed = FALSE
    /\ lastOp = "init"
    /\ calls = <<>>

InitServer ==
    /\ server_markers = {}
    /\ server_callbacks = {}

InitJoint ==
    /\ jointAlive = TRUE
    /\ jointType \in JointTypes
    /\ jointStatic \in BOOLEAN
    /\ jointMimic \in BOOLEAN
    /\ jointValue \in Angles
    /\ jointPoseLive \in Poses
    /\ jm = "none"
    /\ joint_pose_ = 0
    /\ joint_initial_ = 0
    /\ joint_delta_ = 0
    /\ created_ = FALSE
    /\ force_update_ = FALSE
    /\ active_ = FALSE
    /\ marker_name = EmptyName
    /\ marker_frame = ""
    /\ lastButton = "none"

NextJoint ==
    \/ JointMarkerCtor
    \/ JointMarkerDtor
    \/ set_pose
    \/ set_parent_frame
    \/ JointEnvironmentSync
    \/ JointCallback
    \/ JointSetValue
    \/ JointMove
    \/ JointExpire

\* the JointMarker machine
Init == InitProc /\ InitServer /\ InitJoint /\ IdleLink /\ IdleId /\ IdleRest
Next == NextJoint
Spec == Init /\ [][Next]_vars

\* the LinkMarker machine
InitLink ==
    InitProc /\ InitServer /\ IdleJoint /\ InitLinkEnv /\ InitLinkObj /\ IdleId /\ IdleRest
SpecLink == InitLink /\ [][NextLink]_vars

\* the identifiers of two joints or links
InitIds == InitProc /\ InitServer /\ IdleJoint /\ IdleLink /\ InitId /\ IdleRest
SpecId == InitIds /\ [][NextId]_vars
\* the life of one marker object, a JointMarker or a LinkMarker, each on a
\* server of its own: the machine that has started runs alone
OnlyJoint == IdleLink
OnlyLink == IdleJoint
NextMarkers == (OnlyJoint /\ NextJoint) \/ (OnlyLink /\ NextLink)
SpecMarkers == (Init \/ InitLink) /\ [][NextMarkers]_vars

\* two LinkMarker objects on one link and one server
InitPair ==
    /\ InitProc /\ InitServer /\ IdleJoint /\ IdleLink /\ IdleId
    /\ IdleGeomFn /\ InitPairObjects /\ IdleViewer /\ IdleRace
SpecPair == InitPair /\ [][NextPair]_vars

\* the viewer and its timer
InitView ==
    /\ InitProc /\ InitServer /\ IdleJoint /\ IdleLink /\ IdleId
    /\ IdleGeomFn /\ IdlePair /\ InitViewer /\ IdleRace
SpecViewer == InitView /\ [][NextViewer]_vars

\* the sync context and the feedback context of one JointMarker
InitRace ==
    /\ InitProc /\ InitServer /\ InitControllableJoint /\ IdleLink /\ IdleId
    /\ IdleGeomFn /\ IdlePair /\ IdleViewer /\ IdleRace
SpecRace == InitRace /\ [][NextRace]_vars

\* the markers of a body with one box link and one revolute joint
InitBody ==
    /\ InitProc /\ InitServer /\ InitControllableJoint /\ InitBoxLink /\ InitLinkObj /\ IdleId
    /\ IdleRest
SpecBody == InitBody /\ [][NextBody]_vars

\* one primitive built from one geometry
InitGeom ==
    /\ InitProc /\ InitServer /\ IdleJoint /\ IdleLink /\ IdleId
    /\ InitGeomFn /\ IdlePair /\ IdleViewer /\ IdleRace
SpecGeom == InitGeom /\ [][NextGeomFn]_vars

(***************************************************************************)
(* Properties of the JointMarker machine (Spec)                            *)
(***************************************************************************)
\* C1: right after an EnvironmentSync of a controllable joint that ran with
\* no drag in progress, angle() is the live joint's value and joint_delta_ is 0.
IdleSyncTracksJoint ==
    (lastOp = "JointSync" /\ ~active_ /\ Controllable /\ jointAlive)
        => (angle = jointValue /\ joint_delta_ = 0)

\* C1 is exercised: the first sync after a mouse-up, the joint having a value
\* other than the one the marker was constructed with
IdleSyncAfterMouseUp ==
    /\ lastOp = "JointSync" /\ ~active_ /\ Controllable /\ jointAlive
    /\ lastButton = "MOUSE_UP"
    /\ jointValue = MaxAngle /\ angle = MaxAngle

\* C2: while a drag is in progress, a step that changes angle() is the
\* processing of a pose-update feedback event; a sync tick or a change of the
\* live joint value leaves angle() alone.
DragIsolation ==
    [][(active_ /\ angle' # angle) => lastOp' = "POSE_UPDATE"]_vars

\* C2 is exercised: a sync has run in the middle of a drag while the live
\* joint value is not the angle the marker reports
SyncDuringDrag ==
    /\ jm = "live" /\ active_ /\ lastOp = "JointSync"
    /\ jointAlive /\ jointValue # angle

\* C3: from a mouse-down to the next mouse-up no step changes joint_pose_.
DragFraming ==
    [][active_ => joint_pose_' = joint_pose_]_vars

\* C3 is exercised: set_pose was called in the middle of a drag that has
\* also seen a sync and a pose-update
SetPoseDuringDrag ==
    /\ jm = "live" /\ active_ /\ lastOp = "set_pose"
    /\ created_ /\ joint_delta_ # 0

\* C8, as claimed: a JointMarker on a joint that is not revolute, or is
\* static, or is mimic, never calls the marker server: neither its
\* constructor nor any EnvironmentSync issues insert, setCallback or setPose.
InertJointMarkerIsSilent ==
    (~Controllable /\ lastOp \in {"JointMarkerCtor", "JointSync", "JointSyncCrash"})
        => calls = <<>>

\* C9, as claimed: an EnvironmentSync of a marker whose joint or link has
\* expired makes no server call and does not bring the process down.
ExpiredSyncIsSkipped ==
    /\ ~crashed
    /\ (lastOp = "JointSync" /\ ~jointAlive) => calls = <<>>
    /\ (lastOp = "LinkSync" /\ ~linkAlive) => calls = <<>>

(***************************************************************************)
(* Properties of the LinkMarker machine (SpecLink)                         *)
(***************************************************************************)
\* the geometries of the link that are shown and yield a primitive
RenderedGeometries ==
    {i \in 1..Len(geoms) :
        /\ geomVisible[geoms[i]]
        /\ CreateGeometryMarker(geomType[geoms[i]], geomRenderFile[geoms[i]],
                                geomLook[geoms[i]], is_ghost_) # NoMarker}

\* C4: a sync that finds no geometry added, removed, hidden or shown since
\* the sync before it issues one setPose and nothing else.
UnchangedSyncOnlySetsPose ==
    (lastOp = "LinkSync" /\ linkAlive /\ prevSynced /\ ~prevToggled /\ ~prevListChanged)
        => CallOps(calls) = <<"setPose">>

\* C4 is exercised: such a sync on a link that holds a hidden geometry and a
\* shown geometry without primitive
UnchangedSyncWithHiddenAndEmpty ==
    /\ lastOp = "LinkSync" /\ linkAlive /\ prevSynced /\ ~prevToggled /\ ~prevListChanged
    /\ \E i \in 1..Len(geoms) : ~geomVisible[geoms[i]]
    /\ \E i \in 1..Len(geoms) :
          /\ geoms[i] \in DOMAIN geometry_markers_
          /\ geometry_markers_[geoms[i]] = NullMarker

\* C5: a sync that finds a geometry of the link hidden or shown since the sync
\* before it recreates the marker (one insert, no setPose), and the marker
\* inserted holds one primitive per shown geometry that yields one.
ToggledSyncRecreates ==
    (lastOp = "LinkSync" /\ linkAlive /\ prevSynced /\ prevToggled)
        => /\ CallOps(calls) = <<"insert">>
           /\ Len(markers) = Cardinality(RenderedGeometries)

\* C5 is exercised: a geometry was hidden between two syncs, and the marker
\* recreated by the second still holds a primitive
HiddenBetweenSyncs ==
    /\ lastOp = "LinkSync" /\ linkAlive /\ prevSynced /\ prevToggled /\ ~prevListChanged
    /\ \E i \in 1..Len(geoms) : ~geomVisible[geoms[i]]
    /\ Len(markers) = 1

\* C6: a sync of the LinkMarker issues one server call, an insert or a
\* setPose; no outcome of a sync issues both.
SyncInsertsOrSetsPose ==
    /\ lastOp = "LinkSync" => CallOps(calls) \in {<<"insert">>, <<"setPose">>}
    /\ lastOp = "LinkSyncCrash" => calls = <<>>

\* C6 is exercised: a sync after the first one that recreates the marker
RecreatingSync ==
    /\ lastOp = "LinkSync" /\ prevSynced /\ CallOps(calls) = <<"insert">>
    /\ Len(markers) = MaxGeoms

\* C7, as claimed: the sync that follows a change of render mode recreates
\* the marker, here for a marker the server already holds.
RenderModeChangeRecreates ==
    (lastOp = "LinkSync" /\ linkAlive /\ prevSynced /\ prevModeChanged
        /\ TheLinkId \in server_markers)
        => CallOps(calls) = <<"insert">>

(***************************************************************************)
(* Properties of the identifiers (SpecId)                                  *)
(***************************************************************************)
\* C10, as claimed: two different joints, or two different links, of one
\* environment get different identifiers.
IdsAreUnique ==
    idKind # "none" => idOut[1] # idOut[2]

\* C20, as claimed: right after an EnvironmentSync that ran with no drag in
\* progress, joint_pose_ (the pose the sync pushed to the server) is the pose
\* derived from the live joint's current anchor and axis.
IdleSyncRefreshesBasePose ==
    (lastOp = "JointSync" /\ ~active_ /\ jointAlive) => joint_pose_ = jointPoseLive

\* the membership of the link's geometry list differs from what the last
\* recreation recorded: a geometry mapped then is no longer in the list, or a
\* visible geometry of the list was not mapped then
MembershipMismatch ==
    \/ \E g \in DOMAIN geometry_markers_ : ~InList(g)
    \/ \E i \in 1..Len(geoms) :
          geomVisible[geoms[i]] /\ geoms[i] \notin DOMAIN geometry_markers_

\* C18, as claimed: an EnvironmentSync of a live link that starts with such a
\* membership mismatch performs the full recreation (insert), not the
\* pose-only update.
MembershipChangeRecreates ==
    [][(lm = "live" /\ linkAlive /\ MembershipMismatch /\ lastOp' = "LinkSync")
          => CallOps(calls') = <<"insert">>]_vars

\* the geometry objects in the link's list
ListedGeometries == {geoms[i] : i \in 1..Len(geoms)}
\* the state right after a sync of a live link that recreated the marker
JustRecreated ==
    lastOp = "LinkSync" /\ linkAlive /\ CallOps(calls) = <<"insert">>
\* the primitive CreateGeometry(GeometryPtr) builds for a listed geometry
PrimitiveOf(g) ==
    CreateGeometryMarker(geomType[g], geomRenderFile[g], geomLook[g], is_ghost_)

Built == cgMarker # NotBuilt /\ cgMarker # NoMarker

\* C16: a primitive built by a ghost LinkMarker has the colour (0, 1, 0) with
\* alpha 0.2 whatever the geometry's diffuse colour and transparency; one
\* built by a non-ghost LinkMarker has the geometry's diffuse colour with
\* alpha 1 - transparency.
GhostColouring ==
    Built =>
        IF cgGhost
        THEN cgMarker.color = [r |-> 0, g |-> 10, b |-> 0, a |-> 2]
        ELSE /\ cgMarker.color.r = cgGeometry.look.diffuse.r
             /\ cgMarker.color.g = cgGeometry.look.diffuse.g
             /\ cgMarker.color.b = cgGeometry.look.diffuse.b
             /\ cgMarker.color.a = 10 - cgGeometry.look.transparency

\* C16 is exercised: a ghost primitive built from a red, partly transparent
\* geometry
GhostOfRedGeometry ==
    /\ Built /\ cgGhost
    /\ cgGeometry.look.diffuse = Red /\ cgGeometry.look.transparency = 3

(***************************************************************************)
(* Properties of either marker object (SpecMarkers)                        *)
(***************************************************************************)
\* C12: once a JointMarker or a LinkMarker is destroyed the server holds no
\* marker under its identifier or its marker name, and the only server call
\* seen from then on is the erase of the destructor itself.
DestroyedIsDeregistered ==
    /\ jm = "destroyed" =>
          /\ marker_name \notin server_markers
          /\ TheJointId \notin server_markers
          /\ \/ calls = <<>>
             \/ lastOp = "JointMarkerDtor" /\ calls = <<Call("erase", marker_name)>>
    /\ lm = "destroyed" =>
          /\ TheLinkId \notin server_markers
          /\ \/ calls = <<>>
             \/ lastOp = "LinkMarkerDtor" /\ calls = <<Call("erase", TheLinkId)>>

\* C12 is exercised: a JointMarker destroyed in the middle of a drag, after a
\* sync, with a re-insert pending
DestroyedMidDrag ==
    /\ jm = "destroyed" /\ lastOp = "JointMarkerDtor"
    /\ active_ /\ created_ /\ force_update_

(***************************************************************************)
(* Properties of two LinkMarker objects of one link (SpecPair)             *)
(***************************************************************************)
\* C11, as claimed: right after the destructor of one LinkMarker has run,
\* every other live LinkMarker that had inserted its marker still has a
\* marker registered under its name.
DestructionSparesOthers ==
    lastOp = "LinkMarkerDtor" =>
        \A o \in Objects :
            (pm[o] = "live" /\ pmInserted[o]) => TheLinkId \in server_markers

(***************************************************************************)
(* Properties of SuperViewer (SpecViewer)                                  *)
(***************************************************************************)
\* the last step ran EnvironmentSync to its end
ViewerSynced ==
    /\ lastOp \in {"ViewerEnvironmentSync", "syncUpdate"}
    /\ \E i \in 1..Len(calls) : calls[i].op = "unlock"

\* every geometry of the world whose bounding box is valid
ValidGeometries ==
    {<<body, link, k>> \in (1..nBodies) \X (1..nLinks) \X (1..Len(aabbValid)) :
        aabbValid[k]}

\* C13, as claimed: an EnvironmentSync of the viewer that runs to its end has
\* emitted a marker for every geometry with a valid bounding box of every
\* link of every body.
ViewerWalksWholeWorld ==
    ViewerSynced => vEmitted = ValidGeometries

\* C14, as claimed: a timer timeout while automatic sync is disabled does not
\* run EnvironmentSync.
TimerRespectsAutoSync ==
    (lastOp = "syncUpdate" /\ ~m_autoSync) => calls = <<>>

(***************************************************************************)
(* Properties of the interleaved sync and feedback (SpecRace)              *)
(***************************************************************************)
\* C17, as claimed: with the feedback callback interleaved between the
\* statements of EnvironmentSync, no step taken while active_ is true
\* overwrites joint_initial_, and none but the processing of a pose-update
\* changes joint_delta_.
DragSurvivesInterleaving ==
    [][active_ => /\ joint_initial_' = joint_initial_
                  /\ (joint_delta_' # joint_delta_ => lastOp' = "POSE_UPDATE")]_vars

(***************************************************************************)
(* Properties of the markers of one body (SpecBody)                        *)
(***************************************************************************)
\* both markers have been constructed and synced
BothSynced == jm = "live" /\ created_ /\ lm = "live" /\ synced

\* C15: for a link with one visible box geometry without render file and a
\* revolute, non-static, non-mimic joint, once both markers are constructed
\* and synced the server holds the link marker and the joint marker and
\* nothing else, the link marker's one control holds one cube scaled to the
\* box extents, and the joint marker has one control, a rotate-axis one.
BoxLinkAndRevoluteJoint ==
    BothSynced =>
        /\ server_markers = {TheLinkId, TheJointId}
        /\ TheLinkId # TheJointId
        /\ Len(LinkMarkerControls) = 1
        /\ Len(LinkMarkerControls[1].markers) = 1
        /\ LinkMarkerControls[1].markers[1].type = "CUBE"
        /\ LinkMarkerControls[1].markers[1].scale = geomLook[geoms[1]].box_extents
        /\ Len(JointMarkerControls) = 1
        /\ JointMarkerControls[1].interaction_mode = "ROTATE_AXIS"

\* C15 is exercised: each marker has been synced, the link marker first,
\* for the larger box
BodySyncedOnce ==
    /\ BothSynced /\ lastOp = "JointSync" /\ ~prevSynced
    /\ geomLook[geoms[1]].box_extents = <<11, 12, 13>>

\* C25, as claimed: when an EnvironmentSync of the viewer has returned, the
\* viewer holds the environment's mutex no more often than before the call:
\* not at all, every call being balanced.
MutexBalanced ==
    lastOp \in {"ViewerEnvironmentSync", "syncUpdate"} => envLockDepth = 0

\* C24, as claimed: a sync of a LinkMarker on a live link that issues setPose
\* does so for a marker the server holds, the LinkMarker having inserted it
\* in an earlier sync.
SetPoseOnlyAfterInsert ==
    (lastOp = "LinkSync" /\ linkAlive /\ \E i \in 1..Len(calls) : calls[i].op = "setPose")
        => TheLinkId \in server_markers

\* the render file names a mesh to show: it is not empty and does not begin
\* with the 14 characters "__norenderif__"
NamesMesh(file) ==
    /\ file # ""
    /\ ~(Len(file) >= 14 /\ SubSeq(file, 1, 14) = "__norenderif__")

\* C23: CreateGeometry(GeometryPtr) returns a mesh resource when the render
\* file names a mesh, whatever the geometry type, a ghost's mesh resource
\* having embedded materials off; otherwise a cube for a box, a sphere for a
\* sphere, a cylinder for a cylinder and no marker for the types none,
\* triangle mesh and unknown.
PrimitiveDispatch ==
    cgMarker # NotBuilt =>
        IF NamesMesh(cgGeometry.render_filename)
        THEN /\ cgMarker.type = "MESH_RESOURCE"
             /\ cgMarker.mesh_resource = "file://" \o cgGeometry.render_filename
             /\ cgGhost => ~cgMarker.mesh_use_embedded_materials
        ELSE /\ cgGeometry.type = "GT_Box" => cgMarker.type = "CUBE"
             /\ cgGeometry.type = "GT_Sphere" => cgMarker.type = "SPHERE"
             /\ cgGeometry.type = "GT_Cylinder" => cgMarker.type = "CYLINDER"
             /\ cgGeometry.type \in {"GT_None", "GT_TriMesh", "GT_Unknown"}
                    => cgMarker = NoMarker

\* C23 is exercised: a box whose render file carries the prefix has become
\* a cube
SuppressedMeshOfBox ==
    /\ cgMarker # NotBuilt /\ cgMarker.type = "CUBE"
    /\ cgGeometry.render_filename = "__norenderif__:forearm.dae"

(***************************************************************************)
(* Further properties of the JointMarker machine (Spec)                    *)
(***************************************************************************)
\* C22: active_ is true exactly when the last mouse-down or mouse-up event
\* processed was a mouse-down, false when none was processed yet; and no step
\* other than the processing of a mouse-down or a mouse-up changes it.
DragFlagTracksButtons ==
    /\ [](active_ <=> lastButton = "MOUSE_DOWN")
    /\ [][lastOp' \notin {"MOUSE_DOWN", "MOUSE_UP"} => active_' = active_]_vars

\* C22 is exercised: the frame was changed in the middle of a drag that has
\* seen a pose-update and a sync
FrameChangedDuringDrag ==
    /\ active_ /\ lastButton = "MOUSE_DOWN" /\ lastOp = "set_parent_frame"
    /\ created_ /\ joint_delta_ # 0

\* the step is an EnvironmentSync of the JointMarker, returning or not
JointSyncStep == lastOp' \in {"JointSync", "JointSyncCrash"}

\* C21: set_parent_frame raises force_update_, which stays up until the next
\* EnvironmentSync; that sync issues one insert of the marker, before its
\* setPose, and clears the flag; a sync that finds the flag clear issues no
\* insert; and every sync issues exactly one setPose, its last call, for the
\* marker's name and with joint_pose_.
RecreateFlagProtocol ==
    [][/\ lastOp' = "set_parent_frame" => force_update_'
       /\ (~JointSyncStep /\ force_update_) => force_update_'
       /\ JointSyncStep =>
             /\ ~force_update_'
             /\ CallOps(calls') = IF force_update_ THEN <<"insert", "setPose">>
                                                   ELSE <<"setPose">>
             /\ \A i \in 1..Len(calls') : calls'[i].name = marker_name
             /\ calls'[Len(calls')].pose = joint_pose_]_vars

\* C21 is exercised: a sync has just re-inserted the marker of a controllable
\* joint whose frame was changed after construction
ReinsertedAfterFrameChange ==
    /\ lastOp = "JointSync" /\ Controllable /\ ~force_update_
    /\ marker_frame = "/base"
    /\ CallOps(calls) = <<"insert", "setPose">>
====
